---- MODULE Spec2Model ----
(***************************************************************************)
(* Model of install-ci-tooling's entrypoint.py: one run of main().         *)
(*                                                                         *)
(* Text that the program inspects character by character (tool names,      *)
(* versions, sources, registry keys, pip output lines) is a sequence of    *)
(* one-character strings; text that is only assembled and compared         *)
(* (commands, log messages) is a TLA+ string.  Str converts the former to  *)
(* the latter.                                                             *)
(***************************************************************************)
EXTENDS Naturals, Sequences, FiniteSets, TLC

(***************************************************************************)
(* Bounds of the model.                                                    *)
(***************************************************************************)
\* Longest manifest section (number of entries) that is explored.
MaxTools == 2

\* longest tool name tried against the name pattern
MaxNameLen == 3

(***************************************************************************)
(* Characters and strings.                                                 *)
(***************************************************************************)
LowerChars ==
  {"a","b","c","d","e","f","g","h","i","j","k","l","m",
   "n","o","p","q","r","s","t","u","v","w","x","y","z"}

UpperChars ==
  {"A","B","C","D","E","F","G","H","I","J","K","L","M",
   "N","O","P","Q","R","S","T","U","V","W","X","Y","Z"}

DigitChars == {"0","1","2","3","4","5","6","7","8","9"}

AlphaChars == LowerChars \cup UpperChars

AlnumChars == AlphaChars \cup DigitChars

RECURSIVE Str(_)
Str(cs) == IF cs = <<>> THEN "" ELSE Head(cs) \o Str(Tail(cs))

ToUpper(c) ==
  CASE c = "a" -> "A" [] c = "b" -> "B" [] c = "c" -> "C" [] c = "d" -> "D"
    [] c = "e" -> "E" [] c = "f" -> "F" [] c = "g" -> "G" [] c = "h" -> "H"
    [] c = "i" -> "I" [] c = "j" -> "J" [] c = "k" -> "K" [] c = "l" -> "L"
    [] c = "m" -> "M" [] c = "n" -> "N" [] c = "o" -> "O" [] c = "p" -> "P"
    [] c = "q" -> "Q" [] c = "r" -> "R" [] c = "s" -> "S" [] c = "t" -> "T"
    [] c = "u" -> "U" [] c = "v" -> "V" [] c = "w" -> "W" [] c = "x" -> "X"
    [] c = "y" -> "Y" [] c = "z" -> "Z" [] OTHER -> c

ToLower(c) ==
  CASE c = "A" -> "a" [] c = "B" -> "b" [] c = "C" -> "c" [] c = "D" -> "d"
    [] c = "E" -> "e" [] c = "F" -> "f" [] c = "G" -> "g" [] c = "H" -> "h"
    [] c = "I" -> "i" [] c = "J" -> "j" [] c = "K" -> "k" [] c = "L" -> "l"
    [] c = "M" -> "m" [] c = "N" -> "n" [] c = "O" -> "o" [] c = "P" -> "p"
    [] c = "Q" -> "q" [] c = "R" -> "r" [] c = "S" -> "s" [] c = "T" -> "t"
    [] c = "U" -> "u" [] c = "V" -> "v" [] c = "W" -> "w" [] c = "X" -> "x"
    [] c = "Y" -> "y" [] c = "Z" -> "z" [] OTHER -> c

\* str.capitalize(): first character upper-cased, the rest lower-cased.
Capitalize(cs) ==
  [i \in 1..Len(cs) |-> IF i = 1 THEN ToUpper(cs[i]) ELSE ToLower(cs[i])]

(***************************************************************************)
(* Regular expressions, matched as the re module does for patterns without *)
(* back-references: a set of positions (index of the next character to     *)
(* read) is pushed through the pattern; fullmatch succeeds iff the         *)
(* position after the last character is reachable.                         *)
(***************************************************************************)
\* one character of class C
AfterClass(s, P, C) == {p + 1 : p \in {q \in P : q <= Len(s) /\ s[q] \in C}}

\* C*
RECURSIVE AfterStar(_, _, _)
AfterStar(s, P, C) ==
  LET N == AfterClass(s, P, C)
  IN  IF N \subseteq P THEN P ELSE AfterStar(s, P \cup N, C)

\* C+
AfterPlus(s, P, C) == AfterStar(s, AfterClass(s, P, C), C)

\* (?:0|[1-9]\d*)
AfterNumber(s, P) ==
  AfterClass(s, P, {"0"})
    \cup AfterStar(s, AfterClass(s, P, DigitChars \ {"0"}), DigitChars)

FullMatch(s, P) == (Len(s) + 1) \in P

\* [a-zA-Z0-9](?:[a-zA-Z0-9._-]+[a-zA-Z0-9])?
TOOL_NAME_PATTERN(s) ==
  LET P1 == AfterClass(s, {1}, AlnumChars)
      P2 == AfterClass(s, AfterPlus(s, P1, AlnumChars \cup {".", "_", "-"}),
                       AlnumChars)
  IN  FullMatch(s, P1 \cup P2)

\* ^v?(?:\d+!)?N(?:\.N){2}([-.][a-zA-Z]+(?:\.?\d+)?)?(?:\+[a-zA-Z]+(?:\.\d+)?)?$
VERSION_PATTERN(s) ==
  LET P0 == {1}
      P1 == P0 \cup AfterClass(s, P0, {"v"})
      P2 == P1 \cup AfterClass(s, AfterPlus(s, P1, DigitChars), {"!"})
      P3 == AfterNumber(s, P2)
      P4 == AfterNumber(s, AfterClass(s, P3, {"."}))
      P5 == AfterNumber(s, AfterClass(s, P4, {"."}))
      Pa == AfterPlus(s, AfterClass(s, P5, {"-", "."}), AlphaChars)
      Pb == Pa \cup AfterPlus(s, Pa \cup AfterClass(s, Pa, {"."}), DigitChars)
      P6 == P5 \cup Pb
      Pc == AfterPlus(s, AfterClass(s, P6, {"+"}), AlphaChars)
      Pd == Pc \cup AfterPlus(s, AfterClass(s, Pc, {"."}), DigitChars)
      P7 == P6 \cup Pd
  IN  FullMatch(s, P7)

\* [a-z]+
SOURCE_PATTERN(s) == FullMatch(s, AfterPlus(s, {1}, LowerChars))

(***************************************************************************)
(* Values of the loosely typed manifest (what tomllib hands over).         *)
(* ty is the Python type; s is the text of a str, b the value of a bool.   *)
(***************************************************************************)
NoneVal == [ty |-> "none", s |-> <<>>, b |-> FALSE]
StrVal(cs) == [ty |-> "str", s |-> cs, b |-> FALSE]
BoolVal(x) == [ty |-> "bool", s |-> <<>>, b |-> x]
IntVal == [ty |-> "int", s |-> <<>>, b |-> FALSE]
ListVal == [ty |-> "list", s |-> <<>>, b |-> FALSE]

\* truthiness of a value as `if tool.locked:` evaluates it
Truthy(v) ==
  \/ v.ty = "bool" /\ v.b
  \/ v.ty = "str" /\ v.s # <<>>
  \/ v.ty = "int"

(***************************************************************************)
(* Log records: one per logger call.                                       *)
(***************************************************************************)
Rec(level, msg) == [level |-> level, msg |-> msg]

\* numeric value of the logging levels
LevelNo(level) ==
  CASE level = "ERROR" -> 40
    [] level = "WARNING" -> 30
    [] level = "INFO" -> 20
    [] level = "DEBUG" -> 10

\* setup_logging: level configured for a --log-level value
setup_logging(log_level) ==
  CASE log_level = "error" -> "ERROR"
    [] log_level = "warn" -> "WARNING"
    [] log_level = "info" -> "INFO"
    [] log_level = "debug" -> "DEBUG"
    [] OTHER -> "INFO"

\* logger.isEnabledFor(level) under the configured --log-level
isEnabledFor(log_level, level) ==
  LevelNo(level) >= LevelNo(setup_logging(log_level))

(***************************************************************************)
(* Format validators.  Each returns [ok, log]: the boolean result and the  *)
(* error records it logged.                                                *)
(***************************************************************************)
\* tool_name is NoneVal or a StrVal; an empty name gives no prefix
error_msg(tool_name, msg) ==
  IF Truthy(tool_name)
  THEN Rec("ERROR", Str(tool_name.s) \o ": " \o msg)
  ELSE Rec("ERROR", msg)

validate_item(value, field, tool_name, ty, ty_str, mandatory, hasRegex, regexOk, regex_str) ==
  LET Field == Str(Capitalize(field))
  IN  IF value.ty = "none"
      THEN IF mandatory
           THEN [ok |-> FALSE,
                 log |-> <<error_msg(tool_name, Field \o " is mandatory")>>]
           ELSE [ok |-> TRUE, log |-> <<>>]
      ELSE IF value.ty # ty
      THEN [ok |-> FALSE,
            log |-> <<error_msg(tool_name, Field \o " must be " \o ty_str)>>]
      ELSE IF hasRegex /\ ~regexOk
      THEN [ok |-> FALSE,
            log |-> <<error_msg(tool_name,
                        Field \o " doesn't match " \o regex_str \o ": '"
                          \o Str(value.s) \o "'")>>]
      ELSE [ok |-> TRUE, log |-> <<>>]

F_details == <<"t","o","o","l"," ","d","e","t","a","i","l","s">>
F_name == <<"t","o","o","l"," ","n","a","m","e">>
F_version == <<"v","e","r","s","i","o","n">>
F_source == <<"s","o","u","r","c","e">>
F_locked == <<"l","o","c","k","e","d">>

validate_details(tool_name, value) ==
  validate_item(value, F_details, tool_name, "dict", "dict", TRUE,
                FALSE, TRUE, "")

validate_tool_name(value) ==
  validate_item(value, F_name, NoneVal, "str", "string", TRUE,
                TRUE, value.ty = "str" /\ TOOL_NAME_PATTERN(value.s),
                "crates.io or Pypi tool name")

validate_version(tool_name, value) ==
  validate_item(value, F_version, tool_name, "str", "string", TRUE,
                TRUE, value.ty = "str" /\ VERSION_PATTERN(value.s),
                "semver or PEP440 scheme")

validate_source(tool_name, value) ==
  validate_item(value, F_source, tool_name, "str", "string", TRUE,
                TRUE, value.ty = "str" /\ SOURCE_PATTERN(value.s),
                "source name pattern")

validate_locked(tool_name, value) ==
  validate_item(value, F_locked, tool_name, "bool", "boolean", FALSE,
                FALSE, TRUE, "")

(***************************************************************************)
(* Manifest reader.                                                        *)
(* A tools file is [exists, section, entries]: whether the path exists,    *)
(* the Python type of data.get(section) ("none" when the section is        *)
(* missing) and, for a table, its entries in file order.  An entry is      *)
(* [name, value, version, source, locked]: the key, the value's type and   *)
(* what value.get(...) returns for the three fields (NoneVal if absent).   *)
(***************************************************************************)
DictVal == [ty |-> "dict", s |-> <<>>, b |-> FALSE]

Entry(name, value, version, source, locked) ==
  [name |-> name, value |-> value, version |-> version, source |-> source,
   locked |-> locked]

ToolInfo(name, version, source, locked) ==
  [name |-> name, version |-> version, source |-> source, locked |-> locked]

\* CheckEntry with every check evaluated, the failing ones all reported
CheckEntry_NoShortCircuit(e) ==
  LET tn == StrVal(e.name)
      r1 == validate_tool_name(tn)
      r2 == validate_details(tn, e.value)
      r3 == validate_version(tn, e.version)
      r4 == validate_source(tn, e.source)
      r5 == validate_locked(tn, e.locked)
  IN  [ok |-> r1.ok /\ r2.ok /\ r3.ok /\ r4.ok /\ r5.ok,
       log |-> r1.log \o r2.log \o r3.log \o r4.log \o r5.log]

\* the first failing check of one entry, in the order of the code:
\* name, details, then version and source and locked (short-circuit `and`)
CheckEntry(e) ==
  LET tn == StrVal(e.name)
      r1 == validate_tool_name(tn)
      r2 == validate_details(tn, e.value)
      r3 == validate_version(tn, e.version)
      r4 == validate_source(tn, e.source)
      r5 == validate_locked(tn, e.locked)
  IN  IF ~r1.ok THEN r1
      ELSE IF ~r2.ok THEN r2
      ELSE IF ~r3.ok THEN r3
      ELSE IF ~r4.ok THEN r4
      ELSE r5

\* ReadEntries with a failing entry dropped instead of failing the read
RECURSIVE ReadEntries_DropsInvalid(_, _, _)
ReadEntries_DropsInvalid(entries, i, result) ==
  IF i > Len(entries)
  THEN [raised |-> FALSE, ok |-> TRUE, tools |-> result, log |-> <<>>]
  ELSE LET e == entries[i]
           r == CheckEntry(e)
       IN  IF r.ok
           THEN ReadEntries_DropsInvalid(entries, i + 1,
                  Append(result,
                    ToolInfo(e.name, e.version.s, e.source.s, e.locked)))
           ELSE ReadEntries_DropsInvalid(entries, i + 1, result)

\* the for loop of read_tools over entries i..Len(entries)
RECURSIVE ReadEntries(_, _, _)
ReadEntries(entries, i, result) ==
  IF i > Len(entries)
  THEN [raised |-> FALSE, ok |-> TRUE, tools |-> result, log |-> <<>>]
  ELSE LET e == entries[i]
           r == CheckEntry(e)
       IN  IF r.ok
           THEN ReadEntries(entries, i + 1,
                  Append(result,
                    ToolInfo(e.name, e.version.s, e.source.s, e.locked)))
           ELSE [raised |-> FALSE, ok |-> FALSE, tools |-> <<>>,
                 log |-> r.log]

\* read_tools: [raised, ok, tools, log]; ok = FALSE is the None result and
\* raised the TOMLDecodeError of tomllib.loads on a file that is not TOML
\* (section = "undecodable")
read_tools(toml_file, section) ==
  IF ~toml_file.exists
  THEN [raised |-> FALSE, ok |-> FALSE, tools |-> <<>>,
        log |-> <<Rec("ERROR", "Tools file doesn't exist")>>]
  ELSE IF toml_file.section = "undecodable"
  THEN [raised |-> TRUE, ok |-> FALSE, tools |-> <<>>, log |-> <<>>]
  ELSE IF toml_file.section # "dict"
  THEN [raised |-> FALSE, ok |-> FALSE, tools |-> <<>>,
        log |-> <<Rec("ERROR",
                   "Tools file doesn't contain section requested: "
                     \o section)>>]
  ELSE ReadEntries(toml_file.entries, 1, <<>>)

(***************************************************************************)
(* Install decision.  installed_tools is a dict: a function from names to  *)
(* version texts.  Returns [ret, log].                                     *)
(***************************************************************************)
check_tool_installed(name, version, force_install, installed_tools) ==
  LET found == name \in DOMAIN installed_tools
      installed_version == IF found THEN installed_tools[name] ELSE <<>>
  IN  IF ~found \/ installed_version = <<>>
      THEN [ret |-> FALSE,
            log |-> <<Rec("INFO", Str(name) \o " not found, installing...")>>]
      ELSE IF installed_version = version
      THEN [ret |-> FALSE,
            log |-> <<Rec("INFO", Str(name) \o " already installed with "
                                    \o Str(version))>>]
      ELSE [ret |-> force_install,
            log |-> <<Rec("WARNING",
                      "{tool_name} version mismatch (found: "
                        \o Str(installed_version) \o ", expected: "
                        \o Str(version) \o ")."
                        \o (IF force_install THEN " Reinstalling..." ELSE ""))>>]

(***************************************************************************)
(* Command builders.  A prepared command is [ok, cmd, log]; ok = FALSE is  *)
(* the None result.  which_* is the answer of shutil.which.                *)
(***************************************************************************)
None == "None"

\* prepare_rust_install_command with --force put before --no-confirm
prepare_rust_install_command_ForceFirst(force_install, install_method, which_binstall) ==
  IF install_method \notin {"prefer-binstall", "binstall", "install"}
  THEN [ok |-> FALSE, cmd |-> <<>>,
        log |-> <<Rec("ERROR", "Unknown installation method: "
                                 \o install_method)>>]
  ELSE LET use_cargo_binstall ==
             CASE install_method = "prefer-binstall" -> which_binstall
               [] install_method = "binstall" -> TRUE
               [] install_method = "install" -> FALSE
           command == IF use_cargo_binstall THEN <<"cargo", "binstall">>
                      ELSE <<"cargo", "install">>
           forced == IF force_install THEN Append(command, "--force")
                     ELSE command
       IN  [ok |-> TRUE,
            cmd |-> IF use_cargo_binstall THEN Append(forced, "--no-confirm")
                    ELSE forced,
            log |-> <<>>]

prepare_rust_install_command(force_install, install_method, which_binstall) ==
  IF install_method \notin {"prefer-binstall", "binstall", "install"}
  THEN [ok |-> FALSE, cmd |-> <<>>,
        log |-> <<Rec("ERROR", "Unknown installation method: "
                                 \o install_method)>>]
  ELSE LET use_cargo_binstall ==
             CASE install_method = "prefer-binstall" -> which_binstall
               [] install_method = "binstall" -> TRUE
               [] install_method = "install" -> FALSE
           command == IF use_cargo_binstall
                      THEN <<"cargo", "binstall", "--no-confirm">>
                      ELSE <<"cargo", "install">>
       IN  [ok |-> TRUE,
            cmd |-> IF force_install THEN Append(command, "--force")
                    ELSE command,
            log |-> <<>>]

\* prepare_python_install_command with "prefer-uv" not looking for uv
prepare_python_install_command_PreferIsUv(force_install, install_method, which_uv, met) ==
  IF install_method \notin {"prefer-uv", "uv", "pip"}
  THEN [ok |-> FALSE, cmd |-> <<>>, met |-> met,
        log |-> <<Rec("ERROR", "Unknown installation method: "
                                 \o install_method)>>]
  ELSE LET use_python_uv == install_method # "pip"
       IN  [ok |-> TRUE,
            cmd |-> IF use_python_uv THEN <<"uv", "pip", "install">>
                    ELSE <<"pip", "install">>,
            met |-> met \/ force_install,
            log |-> IF force_install /\ ~met
                    THEN <<Rec("WARNING",
                      "Force install flag is not yet supported for Python packages")>>
                    ELSE <<>>]

\* prepare_python_install_command with the test of the flag inverted
prepare_python_install_command_FlagInverted(force_install, install_method, which_uv, met) ==
  IF install_method \notin {"prefer-uv", "uv", "pip"}
  THEN [ok |-> FALSE, cmd |-> <<>>, met |-> met,
        log |-> <<Rec("ERROR", "Unknown installation method: "
                                 \o install_method)>>]
  ELSE LET use_python_uv ==
             CASE install_method = "prefer-uv" -> which_uv
               [] install_method = "uv" -> TRUE
               [] install_method = "pip" -> FALSE
       IN  [ok |-> TRUE,
            cmd |-> IF use_python_uv THEN <<"uv", "pip", "install">>
                    ELSE <<"pip", "install">>,
            met |-> met,
            log |-> IF force_install /\ met
                    THEN <<Rec("WARNING",
                      "Force install flag is not yet supported for Python packages")>>
                    ELSE <<>>]

\* also takes and returns the module-level flag warning_python_force_install_met
prepare_python_install_command(force_install, install_method, which_uv, met) ==
  IF install_method \notin {"prefer-uv", "uv", "pip"}
  THEN [ok |-> FALSE, cmd |-> <<>>, met |-> met,
        log |-> <<Rec("ERROR", "Unknown installation method: "
                                 \o install_method)>>]
  ELSE LET use_python_uv ==
             CASE install_method = "prefer-uv" -> which_uv
               [] install_method = "uv" -> TRUE
               [] install_method = "pip" -> FALSE
       IN  [ok |-> TRUE,
            cmd |-> IF use_python_uv THEN <<"uv", "pip", "install">>
                    ELSE <<"pip", "install">>,
            met |-> met \/ force_install,
            log |-> IF force_install /\ ~met
                    THEN <<Rec("WARNING",
                      "Force install flag is not yet supported for Python packages")>>
                    ELSE <<>>]

(***************************************************************************)
(* Installed-tool registries.                                              *)
(***************************************************************************)
\* index of the first occurrence of sep in s at or after position i, or 0
RECURSIVE Find(_, _, _)
Find(s, sep, i) ==
  IF i + Len(sep) - 1 > Len(s) THEN 0
  ELSE IF SubSeq(s, i, i + Len(sep) - 1) = sep THEN i
  ELSE Find(s, sep, i + 1)

\* str.split(sep, maxsplit); maxsplit = -1 of Python is passed as Len(s)
RECURSIVE Split(_, _, _)
Split(s, sep, maxsplit) ==
  LET i == Find(s, sep, 1)
  IN  IF maxsplit = 0 \/ i = 0 THEN <<s>>
      ELSE <<SubSeq(s, 1, i - 1)>>
             \o Split(SubSeq(s, i + Len(sep), Len(s)), sep, maxsplit - 1)

\* dict(pairs): later pairs override earlier ones
Dict(pairs) ==
  [k \in {pairs[i][1] : i \in DOMAIN pairs} |->
     LET last == CHOOSE i \in DOMAIN pairs :
                   /\ pairs[i][1] = k
                   /\ \A j \in DOMAIN pairs : pairs[j][1] = k => j <= i
     IN  pairs[last][2]]

\* the for loop of list_installed_rust_tools over keys i..Len(keys)
RECURSIVE ParseCrates(_, _, _)
ParseCrates(keys, i, result) ==
  IF i > Len(keys) THEN [raised |-> FALSE, pairs |-> result, log |-> <<>>]
  ELSE LET split == Split(keys[i], <<" ">>, 2)
       IN  IF Len(split) < 2
           THEN [raised |-> FALSE, pairs |-> <<>>,
                 log |-> <<Rec("WARNING", "Unable to parse .crates.toml")>>]
           ELSE IF Len(split) # 3
           THEN \* (crate, version, _) = split raises ValueError
                [raised |-> TRUE, pairs |-> <<>>, log |-> <<>>]
           ELSE ParseCrates(keys, i + 1,
                            Append(result, <<split[1], split[2]>>))

\* crates_toml is [exists, keys]: whether $CARGO_HOME/.crates.toml exists
\* and the keys of its v1 table (empty when the table is missing or empty)
list_installed_rust_tools(crates_toml) ==
  IF ~crates_toml.exists \/ crates_toml.keys = <<>>
  THEN [raised |-> FALSE, pairs |-> <<>>, log |-> <<>>]
  ELSE ParseCrates(crates_toml.keys, 1, <<>>)

\* the for loop of list_installed_python_packages over the output lines
RECURSIVE ParseFreeze(_, _, _)
ParseFreeze(lines, i, result) ==
  IF i > Len(lines) THEN [pairs |-> result, log |-> <<>>]
  ELSE LET split == Split(lines[i], <<"=", "=">>, Len(lines[i]))
       IN  IF Len(split) # 2
           THEN [pairs |-> <<>>,
                 log |-> <<Rec("WARNING",
                            "Unable to parse python installed packages")>>]
           ELSE ParseFreeze(lines, i + 1, Append(result, split))

\* ' '.join(command)
RECURSIVE Join(_)
Join(command) ==
  IF command = <<>> THEN ""
  ELSE IF Len(command) = 1 THEN command[1]
  ELSE command[1] \o " " \o Join(Tail(command))

\* proc is what subprocess.run does when it is called: [status, stdout] with
\* status "ok", "nonzero" (CalledProcessError) or "oserror" (spawn error).
\* Returns [raised, pairs, log, command, executed]; command is <<>> when no
\* list command was built.
list_installed_python_packages(install_method, dry_run, which_uv, log_level, proc) ==
  IF install_method \notin {"prefer-uv", "uv", "pip"}
  THEN [raised |-> FALSE, pairs |-> <<>>, command |-> <<>>,
        executed |-> FALSE,
        log |-> <<Rec("ERROR", "Unknown installation method: "
                                 \o install_method)>>]
  ELSE LET use_python_uv ==
             CASE install_method = "prefer-uv" -> which_uv
               [] install_method = "uv" -> TRUE
               [] install_method = "pip" -> FALSE
           command == IF use_python_uv
                      THEN <<"uv", "pip", "list", "--format=freeze", "-q">>
                      ELSE <<"pip", "list", "--format=freeze">>
           level == IF dry_run THEN "WARNING" ELSE "DEBUG"
           l1 == IF isEnabledFor(log_level, level)
                 THEN <<Rec(level, "List python packages using command: '"
                                     \o Join(command) \o "'")>>
                 ELSE <<>>
       IN  IF dry_run
           THEN [raised |-> FALSE, pairs |-> <<>>, command |-> command,
                 executed |-> FALSE, log |-> l1]
           ELSE IF proc.status # "ok"
           THEN [raised |-> TRUE, pairs |-> <<>>, command |-> command,
                 executed |-> TRUE, log |-> l1]
           ELSE LET r == ParseFreeze(proc.stdout, 1, <<>>)
                IN  [raised |-> FALSE, pairs |-> r.pairs,
                     command |-> command, executed |-> TRUE,
                     log |-> l1 \o r.log]

\* run_install_tool taking a missing base command for an empty one
run_install_tool_NoneIsEmpty(versioned_tool, dry_run, prepared, additional_args, log_level, proc) ==
  LET command == Append(prepared.cmd \o additional_args, versioned_tool)
      level == IF dry_run THEN "WARNING" ELSE "DEBUG"
      l1 == <<Rec("INFO", "Installing " \o versioned_tool)>>
      l2 == IF isEnabledFor(log_level, level)
            THEN <<Rec(level, "Running install command: '"
                                \o Join(command) \o "'")>>
            ELSE <<>>
      l3 == <<Rec("INFO", "Successfully installed " \o versioned_tool)>>
  IN  IF dry_run
      THEN [outcome |-> "ok", command |-> command, executed |-> FALSE,
            log |-> l1 \o l2 \o l3]
      ELSE IF proc = "ok"
      THEN [outcome |-> "ok", command |-> command, executed |-> TRUE,
            log |-> l1 \o l2 \o l3]
      ELSE [outcome |-> IF proc = "nonzero" THEN "CalledProcessError"
                        ELSE "OSError",
            command |-> command, executed |-> TRUE, log |-> l1 \o l2]

\* run_install_tool without the `if not dry_run` guard of subprocess.run
run_install_tool_AlwaysRuns(versioned_tool, dry_run, prepared, additional_args, log_level, proc) ==
  IF ~prepared.ok
  THEN [outcome |-> "TypeError", command |-> <<>>, executed |-> FALSE,
        log |-> <<>>]
  ELSE LET command == Append(prepared.cmd \o additional_args, versioned_tool)
           level == IF dry_run THEN "WARNING" ELSE "DEBUG"
           l1 == <<Rec("INFO", "Installing " \o versioned_tool)>>
           l2 == IF isEnabledFor(log_level, level)
                 THEN <<Rec(level, "Running install command: '"
                                     \o Join(command) \o "'")>>
                 ELSE <<>>
           l3 == <<Rec("INFO", "Successfully installed " \o versioned_tool)>>
       IN  IF proc = "ok"
           THEN [outcome |-> "ok", command |-> command, executed |-> TRUE,
                 log |-> l1 \o l2 \o l3]
           ELSE [outcome |-> IF proc = "nonzero" THEN "CalledProcessError"
                             ELSE "OSError",
                 command |-> command, executed |-> TRUE, log |-> l1 \o l2]

(***************************************************************************)
(* Execution of one install command.  proc is the outcome of               *)
(* subprocess.run when it is called: "ok", "nonzero" or "oserror".         *)
(* prepared is a prepared command [ok, cmd]; list(None) raises TypeError   *)
(* before anything is logged.  Returns [outcome, command, executed, log]   *)
(* with outcome "ok", "CalledProcessError", "OSError" or "TypeError".      *)
(***************************************************************************)
run_install_tool(versioned_tool, dry_run, prepared, additional_args, log_level, proc) ==
  IF ~prepared.ok
  THEN [outcome |-> "TypeError", command |-> <<>>, executed |-> FALSE,
        log |-> <<>>]
  ELSE LET command == Append(prepared.cmd \o additional_args, versioned_tool)
           level == IF dry_run THEN "WARNING" ELSE "DEBUG"
           l1 == <<Rec("INFO", "Installing " \o versioned_tool)>>
           l2 == IF isEnabledFor(log_level, level)
                 THEN <<Rec(level, "Running install command: '"
                                     \o Join(command) \o "'")>>
                 ELSE <<>>
           l3 == <<Rec("INFO", "Successfully installed " \o versioned_tool)>>
       IN  IF dry_run
           THEN [outcome |-> "ok", command |-> command, executed |-> FALSE,
                 log |-> l1 \o l2 \o l3]
           ELSE IF proc = "ok"
           THEN [outcome |-> "ok", command |-> command, executed |-> TRUE,
                 log |-> l1 \o l2 \o l3]
           ELSE [outcome |-> IF proc = "nonzero" THEN "CalledProcessError"
                             ELSE "OSError",
                 command |-> command, executed |-> TRUE, log |-> l1 \o l2]

(***************************************************************************)
(* Inputs of a run: command line, environment, files.                      *)
(***************************************************************************)
crate == <<"c", "r", "a", "t", "e">>
pypi == <<"p", "y", "p", "i">>
unknown == <<"u", "n", "k", "n", "o", "w", "n">>

bat == <<"b", "a", "t">>
ruff == <<"r", "u", "f", "f">>
fd_find == <<"f", "d", "-", "f", "i", "n", "d">>
bad_name == <<"-", "b", "a", "d">>

V100 == <<"1", ".", "0", ".", "0">>
V200 == <<"2", ".", "0", ".", "0">>
Wow == <<"W", "o", "w">>

RUST_INSTALL_METHODS == {"prefer-binstall", "binstall", "install"}
PYTHON_INSTALL_METHODS == {"prefer-uv", "uv", "pip"}

\* names of the entries of a section, by position: a TOML table has no
\* duplicate keys
ToolNames == <<bat, ruff, fd_find, <<"t", "o", "x">>>>

\* valid entries at position i: a version, a source and a lock flag
ValidAt(i) ==
  {Entry(ToolNames[i], DictVal, StrVal(v), StrVal(s), NoneVal) :
     v \in {V100, V200}, s \in {crate, pypi}}
    \cup {Entry(ToolNames[i], DictVal, StrVal(V100), StrVal(crate),
                BoolVal(TRUE)),
          Entry(ToolNames[i], DictVal, StrVal(V100), StrVal(crate),
                BoolVal(FALSE)),
          Entry(ToolNames[i], DictVal, StrVal(V200), StrVal(pypi),
                BoolVal(TRUE)),
          Entry(ToolNames[i], DictVal, StrVal(V100), StrVal(unknown),
                NoneVal)}

\* one entry per way of failing a check
InvalidAt(i) ==
  { Entry(bad_name, DictVal, StrVal(V100), StrVal(crate), NoneVal),
    Entry(ToolNames[i], StrVal(V100), NoneVal, NoneVal, NoneVal),
    Entry(ToolNames[i], DictVal, NoneVal, StrVal(crate), NoneVal),
    Entry(ToolNames[i], DictVal, StrVal(Wow), StrVal(crate), NoneVal),
    Entry(ToolNames[i], DictVal, StrVal(V100), NoneVal, NoneVal),
    Entry(ToolNames[i], DictVal, StrVal(V100), StrVal(Wow), NoneVal),
    Entry(ToolNames[i], DictVal, StrVal(V100), StrVal(pypi), IntVal) }

\* the two entries of the runs that explore the backends
BackendAt(i) ==
  { Entry(ToolNames[i], DictVal, StrVal(V100), StrVal(crate), BoolVal(TRUE)),
    Entry(ToolNames[i], DictVal, StrVal(V200), StrVal(pypi), NoneVal) }

\* names that fail the name check, by position
BadNames == <<bad_name, <<"b", "a", "d", "-">>, <<".", "b">>, <<"b", "!", "d">>>>

\* entries at position i that pass or fail any combination of the checks:
\* a good or a bad name, with either a bare version string as the value or
\* a table whose version, source and lock flag are each right or wrong
OrderAt(i) ==
  {Entry(n, StrVal(V100), NoneVal, NoneVal, NoneVal) :
     n \in {ToolNames[i], BadNames[i]}}
    \cup {Entry(n, DictVal, StrVal(v), s, l) :
            n \in {ToolNames[i], BadNames[i]}, v \in {V100, Wow},
            s \in {StrVal(crate), NoneVal}, l \in {NoneVal, IntVal}}

\* entries at position i of the sections of a kind of run
EntriesAt(kind, i) ==
  CASE kind = "backend" -> BackendAt(i)
    [] kind = "order" -> OrderAt(i)
    [] OTHER -> ValidAt(i)

\* sections of n entries, the i-th drawn from EntriesAt(kind, i)
RECURSIVE SectionsOf(_, _)
SectionsOf(kind, n) ==
  IF n = 0 THEN {<<>>}
  ELSE {Append(m, e) : m \in SectionsOf(kind, n - 1), e \in EntriesAt(kind, n)}

\* sections of up to MaxTools valid entries, and the same with the last
\* entry replaced by an invalid one (what follows a failing entry is never
\* read)
Sections ==
  UNION {SectionsOf("valid", n) : n \in 0..MaxTools}
    \cup UNION {{Append(m, e) : m \in SectionsOf("valid", n - 1),
                                e \in InvalidAt(n)} : n \in 1..MaxTools}

Table(m) == [exists |-> TRUE, section |-> "dict", entries |-> m]

TomlFiles ==
  {[exists |-> FALSE, section |-> "none", entries |-> <<>>],
   [exists |-> TRUE, section |-> "none", entries |-> <<>>],
   [exists |-> TRUE, section |-> "int", entries |-> <<>>],
   [exists |-> TRUE, section |-> "undecodable", entries |-> <<>>]}
    \cup {Table(m) : m \in Sections}

BackendTomlFiles ==
  {Table(m) : m \in UNION {SectionsOf("backend", n) : n \in 0..MaxTools}}

\* characters of the names tried against the name pattern: a lower-case and
\* an upper-case letter, a digit, the three separators and one character
\* outside the class
NameChars == {"a", "Z", "7", ".", "_", "-", "!"}

\* every text of up to n of these characters (a quoted TOML key can be any
\* text, the empty one included)
RECURSIVE NamesUpTo(_)
NamesUpTo(n) ==
  IF n = 0 THEN {<<>>}
  ELSE NamesUpTo(n - 1)
         \cup {Append(t, c) : t \in {u \in NamesUpTo(n - 1) : Len(u) = n - 1},
                              c \in NameChars}

\* one-entry sections, valid but for the name
NameTomlFiles ==
  {Table(<<Entry(n, DictVal, StrVal(V100), StrVal(crate), NoneVal)>>) :
     n \in NamesUpTo(MaxNameLen)}

OrderTomlFiles ==
  {Table(m) : m \in UNION {SectionsOf("order", n) : n \in 1..MaxTools}}

CrateKey(name, version) == name \o <<" ">> \o version \o <<" ", "(", "r", ")">>

NoCratesFile == [exists |-> FALSE, keys |-> <<>>]

\* no registry, a registry with two crates, and one whose key has no source
CratesFiles ==
  {NoCratesFile,
   [exists |-> TRUE, keys |-> <<CrateKey(bat, V100), CrateKey(ruff, V100)>>],
   [exists |-> TRUE, keys |-> <<bat \o <<" ">> \o V100>>]}

\* what the list-packages process does when it is run
ListProcs ==
  {[status |-> "ok", stdout |-> <<ruff \o <<"=", "=">> \o V200>>],
   [status |-> "nonzero", stdout |-> <<>>],
   [status |-> "oserror", stdout |-> <<>>]}

\* what an install process does when it is run
InstallProcs == {"ok", "nonzero", "oserror"}

\* parse_args: an omitted method option is None, an omitted --log-level is
\* "information".  The runs explored are of three kinds: every manifest,
\* registry and mode under the default methods and log level; every method
\* and search path under the two-entry manifests; every log level under
\* the two-entry manifests.
OrchestrationRuns ==
  [args : [rust_install_method : {"prefer-binstall"},
           python_install_method : {"prefer-uv"},
           force_install : BOOLEAN,
           dry_run : BOOLEAN,
           log_level : {"information"},
           section : {"section"}],
   env : [which_binstall : {TRUE}, which_uv : {FALSE},
          crates_toml : CratesFiles, toml_file : TomlFiles]]

BackendRuns ==
  [args : [rust_install_method : RUST_INSTALL_METHODS \cup {None},
           python_install_method : PYTHON_INSTALL_METHODS \cup {None},
           force_install : BOOLEAN,
           dry_run : BOOLEAN,
           log_level : {"information"},
           section : {"section"}],
   env : [which_binstall : BOOLEAN, which_uv : BOOLEAN,
          crates_toml : {NoCratesFile}, toml_file : BackendTomlFiles]]

LoggingRuns ==
  [args : [rust_install_method : {"prefer-binstall"},
           python_install_method : {"prefer-uv"},
           force_install : BOOLEAN,
           dry_run : BOOLEAN,
           log_level : {"error", "warn", "debug"},
           section : {"section"}],
   env : [which_binstall : {TRUE}, which_uv : {FALSE},
          crates_toml : CratesFiles, toml_file : BackendTomlFiles]]

\* dry runs over the sections that vary the name of their entry
NameRuns ==
  [args : [rust_install_method : {"prefer-binstall"},
           python_install_method : {"prefer-uv"},
           force_install : {FALSE},
           dry_run : {TRUE},
           log_level : {"information"},
           section : {"section"}],
   env : [which_binstall : {TRUE}, which_uv : {FALSE},
          crates_toml : {NoCratesFile}, toml_file : NameTomlFiles]]

\* dry runs over the sections that vary which checks their entries fail
OrderRuns ==
  [args : [rust_install_method : {"prefer-binstall"},
           python_install_method : {"prefer-uv"},
           force_install : {FALSE},
           dry_run : {TRUE},
           log_level : {"information"},
           section : {"section"}],
   env : [which_binstall : {TRUE}, which_uv : {FALSE},
          crates_toml : {NoCratesFile}, toml_file : OrderTomlFiles]]

Runs ==
  OrchestrationRuns \cup BackendRuns \cup LoggingRuns \cup NameRuns
    \cup OrderRuns

(***************************************************************************)
(* State of a run of main().                                               *)
(***************************************************************************)
VARIABLES
  args,                              \* parsed command line
  env,                               \* search path and files
  pc,                                \* position in main()
  installed_rust_tools,              \* dict
  installed_python_packages,         \* dict
  tools,                             \* result of read_tools
  prepared_command_rust,             \* [ok, cmd]
  prepared_command_python,           \* [ok, cmd]
  warning_python_force_install_met,  \* module-level flag
  idx,                               \* position of the for loop in tools
  result,                            \* "running", "True", "False", "raised"
  log,                               \* logger calls so far
  issued,                            \* install commands built and run/logged
  executed,                          \* external processes run so far
  list_command,                      \* the list-packages command, <<>> if none
  outcome                            \* how the last run_install_tool ended

vars ==
  <<args, env, pc, installed_rust_tools, installed_python_packages, tools,
    prepared_command_rust, prepared_command_python,
    warning_python_force_install_met, idx, result, log, issued, executed,
    list_command, outcome>>

NoCommand == [ok |-> FALSE, cmd |-> <<>>]

EmptyDict == Dict(<<>>)

Init ==
  /\ \E run \in Runs : args = run.args /\ env = run.env
  /\ pc = "start"
  /\ installed_rust_tools = EmptyDict
  /\ installed_python_packages = EmptyDict
  /\ tools = <<>>
  /\ prepared_command_rust = NoCommand
  /\ prepared_command_python = NoCommand
  /\ warning_python_force_install_met = FALSE
  /\ idx = 0
  /\ result = "running"
  /\ log = <<>>
  /\ issued = <<>>
  /\ executed = <<>>
  /\ list_command = <<>>
  /\ outcome = "none"

\* process exit code of the __main__ block once main() has ended: sys.exit(1)
\* when main() returns False, and 1 as well for an uncaught exception
exit_code == IF result = "True" THEN 0 ELSE 1

\* what reaches the output: the records the configured level lets through
Output == SelectSeq(log, LAMBDA r : isEnabledFor(args.log_level, r.level))

(***************************************************************************)
(* main(), one action per step.                                            *)
(***************************************************************************)
\* the debug listing of a dict built from pairs, in insertion order
DebugItems(prefix, pairs) ==
  LET d == Dict(pairs)
      all == [i \in 1..Len(pairs) |-> i]
      firsts == SelectSeq(all, LAMBDA i :
                  \A j \in 1..(i - 1) : pairs[j][1] # pairs[i][1])
  IN  [k \in 1..Len(firsts) |->
         Rec("DEBUG", prefix \o Str(pairs[firsts[k]][1]) \o " "
                        \o Str(d[pairs[firsts[k]][1]]))]

\* main() ends: by return (value "True" or "False") or by an uncaught
\* exception ("raised")
Ends(value) ==
  /\ pc' = "done"
  /\ result' = value

\* lines 438-449: the two installed snapshots are taken
ListInstalled ==
  /\ pc = "start"
  /\ \E proc \in ListProcs :
       LET l0 == <<Rec("INFO", "Installing cargo tools from tools-file/"
                                 \o args.section)>>
           r == list_installed_rust_tools(env.crates_toml)
           p == list_installed_python_packages(args.python_install_method,
                  args.dry_run, env.which_uv, args.log_level, proc)
       IN  IF r.raised
           THEN /\ Ends("raised")
                /\ log' = log \o l0 \o r.log
                /\ UNCHANGED <<installed_rust_tools,
                               installed_python_packages, executed,
                               list_command>>
           ELSE /\ list_command' = p.command
                /\ executed' = IF p.executed THEN Append(executed, p.command)
                               ELSE executed
                /\ IF p.raised
                   THEN /\ Ends("raised")
                        /\ log' = log \o l0 \o r.log \o p.log
                        /\ UNCHANGED <<installed_rust_tools,
                                       installed_python_packages>>
                   ELSE /\ pc' = "read"
                        /\ result' = result
                        /\ installed_rust_tools' = Dict(r.pairs)
                        /\ installed_python_packages' = Dict(p.pairs)
                        /\ log' = log \o l0 \o r.log \o p.log
                             \o (IF isEnabledFor(args.log_level, "DEBUG")
                                 THEN DebugItems("Installed rust crate ",
                                                 r.pairs)
                                        \o DebugItems(
                                             "Installed python package ",
                                             p.pairs)
                                 ELSE <<>>)
  /\ UNCHANGED <<args, env, tools, prepared_command_rust,
                 prepared_command_python, warning_python_force_install_met,
                 idx, issued, outcome>>

\* lines 451-453
ReadTools ==
  /\ pc = "read"
  /\ LET r == read_tools(env.toml_file, args.section)
     IN  /\ log' = log \o r.log
         /\ tools' = r.tools
         /\ IF r.raised THEN Ends("raised")
            ELSE IF r.ok THEN pc' = "prepare" /\ result' = result
            ELSE Ends("False")
  /\ UNCHANGED <<args, env, installed_rust_tools, installed_python_packages,
                 prepared_command_rust, prepared_command_python,
                 warning_python_force_install_met, idx, issued, executed,
                 list_command, outcome>>

\* PrepareCommands with the assignment to the module-level flag lost
PrepareCommands_FlagNotKept ==
  /\ pc = "prepare"
  /\ LET r == prepare_rust_install_command(args.force_install,
                args.rust_install_method, env.which_binstall)
         p == prepare_python_install_command(args.force_install,
                args.python_install_method, env.which_uv,
                warning_python_force_install_met)
     IN  /\ prepared_command_rust' = [ok |-> r.ok, cmd |-> r.cmd]
         /\ prepared_command_python' = [ok |-> p.ok, cmd |-> p.cmd]
         /\ warning_python_force_install_met' = FALSE
         /\ log' = log \o r.log \o p.log
  /\ pc' = "loop"
  /\ idx' = 1
  /\ UNCHANGED <<args, env, installed_rust_tools, installed_python_packages,
                 tools, result, issued, executed, list_command, outcome>>

\* lines 455-462
PrepareCommands ==
  /\ pc = "prepare"
  /\ LET r == prepare_rust_install_command(args.force_install,
                args.rust_install_method, env.which_binstall)
         p == prepare_python_install_command(args.force_install,
                args.python_install_method, env.which_uv,
                warning_python_force_install_met)
     IN  /\ prepared_command_rust' = [ok |-> r.ok, cmd |-> r.cmd]
         /\ prepared_command_python' = [ok |-> p.ok, cmd |-> p.cmd]
         /\ warning_python_force_install_met' = p.met
         /\ log' = log \o r.log \o p.log
  /\ pc' = "loop"
  /\ idx' = 1
  /\ UNCHANGED <<args, env, installed_rust_tools, installed_python_packages,
                 tools, result, issued, executed, list_command, outcome>>

\* Dispatch with the lock flag of the crate branch copied to the pypi branch
Dispatch_PypiLocked(tool) ==
  CASE tool.source = crate ->
         [supported |-> TRUE,
          versioned_tool |-> Str(tool.name) \o "@" \o Str(tool.version),
          installed_tools |-> installed_rust_tools,
          prepared_command |-> prepared_command_rust,
          additional_args |-> IF Truthy(tool.locked) THEN <<"--locked">>
                              ELSE <<>>,
          log |-> <<>>]
    [] tool.source = pypi ->
         [supported |-> TRUE,
          versioned_tool |-> Str(tool.name) \o "==" \o Str(tool.version),
          installed_tools |-> installed_rust_tools,
          prepared_command |-> prepared_command_python,
          additional_args |-> IF Truthy(tool.locked) THEN <<"--locked">>
                              ELSE <<>>,
          log |-> <<>>]
    [] OTHER ->
         [supported |-> FALSE, versioned_tool |-> "",
          installed_tools |-> [k \in {} |-> <<>>],
          prepared_command |-> [ok |-> FALSE, cmd |-> <<>>],
          additional_args |-> <<>>,
          log |-> <<Rec("WARNING", Str(tool.name)
                                     \o ": Source is not supported")>>]

\* lines 465-484: the match on tool.source
Dispatch(tool) ==
  CASE tool.source = crate ->
         [supported |-> TRUE,
          versioned_tool |-> Str(tool.name) \o "@" \o Str(tool.version),
          installed_tools |-> installed_rust_tools,
          prepared_command |-> prepared_command_rust,
          additional_args |-> IF Truthy(tool.locked) THEN <<"--locked">>
                              ELSE <<>>,
          log |-> <<>>]
    [] tool.source = pypi ->
         [supported |-> TRUE,
          versioned_tool |-> Str(tool.name) \o "==" \o Str(tool.version),
          installed_tools |-> installed_rust_tools,
          prepared_command |-> prepared_command_python,
          additional_args |-> <<>>,
          log |-> IF Truthy(tool.locked)
                  THEN <<Rec("INFO", Str(tool.name)
                     \o ": Locked install is not supported for Python install")>>
                  ELSE <<>>]
    [] OTHER ->
         [supported |-> FALSE, versioned_tool |-> "",
          installed_tools |-> EmptyDict, prepared_command |-> NoCommand,
          additional_args |-> <<>>,
          log |-> <<Rec("WARNING", Str(tool.name)
                                     \o ": Source is not supported")>>]

\* lines 486-488: the decision for a tool of a supported source
Decide(tool) ==
  check_tool_installed(tool.name, tool.version, args.force_install,
                       Dispatch(tool).installed_tools)

NextTool ==
  /\ pc' = "loop"
  /\ idx' = idx + 1
  /\ result' = result

\* UnsupportedSource ending the run (`return False`) instead of `continue`
UnsupportedSource_Aborts ==
  /\ pc = "loop" /\ idx <= Len(tools)
  /\ ~Dispatch(tools[idx]).supported
  /\ log' = log \o Dispatch(tools[idx]).log
  /\ Ends("False")
  /\ UNCHANGED <<args, env, installed_rust_tools, installed_python_packages,
                 tools, prepared_command_rust, prepared_command_python,
                 warning_python_force_install_met, idx, issued, executed,
                 list_command, outcome>>

\* lines 482-484: `continue` on an unsupported source
UnsupportedSource ==
  /\ pc = "loop" /\ idx <= Len(tools)
  /\ ~Dispatch(tools[idx]).supported
  /\ log' = log \o Dispatch(tools[idx]).log
  /\ NextTool
  /\ UNCHANGED <<args, env, installed_rust_tools, installed_python_packages,
                 tools, prepared_command_rust, prepared_command_python,
                 warning_python_force_install_met, issued, executed,
                 list_command, outcome>>

\* lines 486-489: `continue` when check_tool_installed returns True
SkipTool ==
  /\ pc = "loop" /\ idx <= Len(tools)
  /\ Dispatch(tools[idx]).supported
  /\ Decide(tools[idx]).ret
  /\ log' = log \o Dispatch(tools[idx]).log \o Decide(tools[idx]).log
  /\ NextTool
  /\ UNCHANGED <<args, env, installed_rust_tools, installed_python_packages,
                 tools, prepared_command_rust, prepared_command_python,
                 warning_python_force_install_met, issued, executed,
                 list_command, outcome>>

\* lines 486-499: run_install_tool is called
InstallTool ==
  /\ pc = "loop" /\ idx <= Len(tools)
  /\ Dispatch(tools[idx]).supported
  /\ ~Decide(tools[idx]).ret
  /\ \E proc \in InstallProcs :
       LET d == Dispatch(tools[idx])
           r == run_install_tool(d.versioned_tool, args.dry_run,
                  d.prepared_command, d.additional_args, args.log_level,
                  proc)
       IN  /\ log' = log \o d.log \o Decide(tools[idx]).log \o r.log
           /\ issued' = IF r.outcome = "TypeError" THEN issued
                        ELSE Append(issued,
                               [tool |-> idx, command |-> r.command])
           /\ executed' = IF r.executed THEN Append(executed, r.command)
                          ELSE executed
           /\ outcome' = r.outcome
           /\ CASE r.outcome = "ok" -> NextTool
                [] r.outcome = "CalledProcessError" ->
                     Ends("False") /\ idx' = idx
                [] OTHER -> Ends("raised") /\ idx' = idx
  /\ UNCHANGED <<args, env, installed_rust_tools, installed_python_packages,
                 tools, prepared_command_rust, prepared_command_python,
                 warning_python_force_install_met, list_command>>

\* line 501: the loop is exhausted
ReturnTrue ==
  /\ pc = "loop" /\ idx > Len(tools)
  /\ Ends("True")
  /\ UNCHANGED <<args, env, installed_rust_tools, installed_python_packages,
                 tools, prepared_command_rust, prepared_command_python,
                 warning_python_force_install_met, idx, log, issued,
                 executed, list_command, outcome>>

Next ==
  \/ ListInstalled
  \/ ReadTools
  \/ PrepareCommands
  \/ UnsupportedSource
  \/ SkipTool
  \/ InstallTool
  \/ ReturnTrue

Spec == Init /\ [][Next]_vars

(***************************************************************************)
(* Vocabulary of the properties.                                           *)
(***************************************************************************)
Done == pc = "done"

\* PrepareCommands has run: the for loop was entered
LoopEntered == idx >= 1

\* the loop has dealt with tool i and gone on to the next one
Passed(i) == LoopEntered /\ idx > i

\* tool i has been dealt with: passed, or the run ended while at it
Handled(i) == Passed(i) \/ (Done /\ idx = i)

Supported(tool) == tool.source \in {crate, pypi}

\* number of install commands issued for tool i
IssuedFor(i) == Cardinality({k \in DOMAIN issued : issued[k].tool = i})

\* number of records of a log equal to r
Count(records, r) == Cardinality({k \in DOMAIN records : records[k] = r})

\* the snapshot the decision for a tool is taken against
SnapshotOf(tool) == Dispatch(tool).installed_tools

InstalledSame(tool) ==
  /\ tool.name \in DOMAIN SnapshotOf(tool)
  /\ SnapshotOf(tool)[tool.name] = tool.version

InstalledOther(tool) ==
  /\ tool.name \in DOMAIN SnapshotOf(tool)
  /\ SnapshotOf(tool)[tool.name] # tool.version

(***************************************************************************)
(* C1: a tool of a supported source that the installed snapshot holds at   *)
(* the desired version gets no install command, whether force-install is   *)
(* set or not.  The code issues one: check_tool_installed returns False    *)
(* for "already installed" and main() installs on False.                   *)
(***************************************************************************)
C1_SameVersionNoInstall ==
  \A i \in DOMAIN tools :
    (Supported(tools[i]) /\ InstalledSame(tools[i])) => IssuedFor(i) = 0

(***************************************************************************)
(* C2: a tool of a supported source that the installed snapshot holds at   *)
(* another version gets no install command when force-install is false,    *)
(* and exactly one when force-install is true.  The code does the          *)
(* opposite in both cases.                                                 *)
(***************************************************************************)
C2_MismatchFollowsForce ==
  \A i \in DOMAIN tools :
    (Supported(tools[i]) /\ InstalledOther(tools[i])) =>
      /\ ~args.force_install => IssuedFor(i) = 0
      /\ (args.force_install /\ Handled(i)) => IssuedFor(i) = 1

(***************************************************************************)
(* C3: when the execution of an install command fails (non-zero exit or    *)
(* spawn error) the run stops at that tool: no later tool is decided on    *)
(* or installed, the command is not retried, main() returns False and the  *)
(* process exits with 1.  A spawn error is not a CalledProcessError and    *)
(* leaves main() as an uncaught exception.                                 *)
(***************************************************************************)
ExecutionFailed == outcome \in {"CalledProcessError", "OSError"}

C3_FailureStopsRun ==
  /\ [](ExecutionFailed =>
          /\ Done
          /\ result = "False"
          /\ exit_code = 1
          /\ idx \in DOMAIN tools
          /\ IssuedFor(idx) = 1
          /\ \A k \in DOMAIN issued : issued[k].tool <= idx)
  /\ [][~ExecutionFailed]_vars

(***************************************************************************)
(* C4: reading the manifest is all-or-nothing.  If the file or the section *)
(* is missing, or any entry of the section fails any of its checks,        *)
(* read_tools returns no result and no partial list, no install command is *)
(* issued for any tool (the valid entries before the bad one included) and *)
(* the run exits non-zero.                                                 *)
(***************************************************************************)
\* some check that the code applies to the entry fails
AnyCheckFails(e) ==
  \/ ~validate_tool_name(StrVal(e.name)).ok
  \/ ~validate_details(StrVal(e.name), e.value).ok
  \/ /\ validate_details(StrVal(e.name), e.value).ok
     /\ \/ ~validate_version(StrVal(e.name), e.version).ok
        \/ ~validate_source(StrVal(e.name), e.source).ok
        \/ ~validate_locked(StrVal(e.name), e.locked).ok

ManifestRejected ==
  \/ ~env.toml_file.exists
  \/ env.toml_file.section \in {"none", "int"}
  \/ /\ env.toml_file.section = "dict"
     /\ \E i \in DOMAIN env.toml_file.entries :
          AnyCheckFails(env.toml_file.entries[i])

BinstallSelected ==
  \/ args.rust_install_method = "binstall"
  \/ args.rust_install_method = "prefer-binstall" /\ env.which_binstall

UvSelected ==
  \/ args.python_install_method = "uv"
  \/ args.python_install_method = "prefer-uv" /\ env.which_uv

CrateCommand(tool) ==
  <<"cargo">>
    \o (IF BinstallSelected THEN <<"binstall", "--no-confirm">>
        ELSE <<"install">>)
    \o (IF args.force_install THEN <<"--force">> ELSE <<>>)
    \o (IF tool.locked = BoolVal(TRUE) THEN <<"--locked">> ELSE <<>>)
    \o <<Str(tool.name) \o "@" \o Str(tool.version)>>

C5_CrateCommandShape ==
  \A k \in DOMAIN issued :
    tools[issued[k].tool].source = crate =>
      issued[k].command = CrateCommand(tools[issued[k].tool])

\* a forced, locked install through cargo binstall, and one that is none of
\* the three, have been issued
C5_Witness ==
  /\ \E k \in DOMAIN issued :
       /\ tools[issued[k].tool].source = crate
       /\ tools[issued[k].tool].locked = BoolVal(TRUE)
       /\ args.force_install /\ BinstallSelected
       /\ Len(issued[k].command) = 6
  /\ Done

(***************************************************************************)
(* C6: every install command issued for a pypi tool is exactly the base    *)
(* command ("uv" "pip" "install", or "pip" "install") followed by          *)
(* "{name}=={version}", with no force flag and no lock flag whatever       *)
(* force-install and locked are; locked = true on a pypi tool is reported  *)
(* once at info level and the run ends at such a tool only when            *)
(* run_install_tool itself fails.                                          *)
(***************************************************************************)
PypiCommand(tool) ==
  (IF UvSelected THEN <<"uv", "pip", "install">> ELSE <<"pip", "install">>)
    \o <<Str(tool.name) \o "==" \o Str(tool.version)>>

Elements(seq) == {seq[k] : k \in DOMAIN seq}

LockedNotSupported(tool) ==
  Str(tool.name) \o ": Locked install is not supported for Python install"

C6_PypiCommandShape ==
  /\ \A k \in DOMAIN issued :
       tools[issued[k].tool].source = pypi =>
         /\ issued[k].command = PypiCommand(tools[issued[k].tool])
         /\ Elements(issued[k].command) \cap {"--force", "--locked"} = {}
  /\ \A i \in DOMAIN tools :
       (tools[i].source = pypi /\ tools[i].locked = BoolVal(TRUE)) =>
         /\ Handled(i) =>
              Count(log, Rec("INFO", LockedNotSupported(tools[i]))) = 1
         /\ \A k \in DOMAIN log :
              log[k].msg = LockedNotSupported(tools[i]) =>
                log[k].level = "INFO"
         /\ (Done /\ idx = i) =>
              outcome \in {"CalledProcessError", "OSError", "TypeError"}

\* a successful forced run that issued a command for a locked pypi tool
C6_Witness ==
  /\ Done /\ result = "True" /\ args.force_install
  /\ \E k \in DOMAIN issued :
       /\ tools[issued[k].tool].source = pypi
       /\ tools[issued[k].tool].locked = BoolVal(TRUE)

(***************************************************************************)
(* C7: "prefer-binstall" (resp. "prefer-uv") selects the binstall (resp.   *)
(* uv) backend iff the binary is on the search path, "binstall"/"uv"       *)
(* select it and "install"/"pip" select the fallback whether or not the    *)
(* binary is there, and the python list-packages command of a run uses     *)
(* the backend of its python install command.                              *)
(***************************************************************************)
C7_BackendSelection ==
  /\ list_command # <<>> => (list_command[1] = "uv" <=> UvSelected)
  /\ LoopEntered =>
       /\ prepared_command_rust.ok =>
            (prepared_command_rust.cmd[2] = "binstall" <=> BinstallSelected)
       /\ prepared_command_python.ok =>
            /\ prepared_command_python.cmd[1] = "uv" <=> UvSelected
            /\ list_command # <<>>
            /\ list_command[1] = "uv" <=> prepared_command_python.cmd[1] = "uv"

\* both commands prepared under "prefer-uv" with uv on the path and
\* "binstall" with cargo-binstall off it, and an install issued
C7_Witness ==
  /\ LoopEntered /\ issued # <<>>
  /\ args.python_install_method = "prefer-uv" /\ env.which_uv
  /\ args.rust_install_method = "binstall" /\ ~env.which_binstall
  /\ prepared_command_rust.ok /\ prepared_command_python.ok

(***************************************************************************)
(* C8: in any run with force-install set whose manifest contains one or    *)
(* more pypi tools the warning "Force install flag is not yet supported    *)
(* for Python packages" appears exactly once in the run's output, however  *)
(* many pypi tools there are; in no run does it appear more than once.     *)
(* As stated it fails for the runs that never prepare the python command   *)
(* or hide warnings; C8_ForceWarningOnce is the statement that holds.      *)
(***************************************************************************)
ForceWarning ==
  Rec("WARNING", "Force install flag is not yet supported for Python packages")

ManifestHasPypi ==
  /\ env.toml_file.exists /\ env.toml_file.section = "dict"
  /\ \E i \in DOMAIN env.toml_file.entries :
       env.toml_file.entries[i].source = StrVal(pypi)

C8_AsStated ==
  /\ Count(Output, ForceWarning) <= 1
  /\ (Done /\ args.force_install /\ ManifestHasPypi) =>
       Count(Output, ForceWarning) = 1

\* C8 as amended: the warning is logged exactly once in every run with
\* force-install set and pypi tools in the manifest that gets as far as
\* preparing the commands (snapshots taken, manifest valid) with a
\* recognised python install method, and then appears in the output exactly
\* once unless the log level hides warnings; it is never logged twice.
C8_ForceWarningOnce ==
  /\ Count(log, ForceWarning) <= 1
  /\ (/\ LoopEntered
      /\ args.force_install
      /\ args.python_install_method \in PYTHON_INSTALL_METHODS
      /\ \E i \in DOMAIN tools : tools[i].source = pypi) =>
       /\ Count(log, ForceWarning) = 1
       /\ isEnabledFor(args.log_level, "WARNING") =>
            Count(Output, ForceWarning) = 1

\* a forced run that issued commands for two pypi tools and warned once
C8_Witness ==
  /\ Done /\ args.force_install
  /\ Cardinality({i \in DOMAIN tools :
                    tools[i].source = pypi /\ IssuedFor(i) = 1}) >= 2
  /\ Count(Output, ForceWarning) = 1

(***************************************************************************)
(* C9: a validated tool whose source is neither "crate" nor "pypi" gets    *)
(* exactly one warning "{name}: Source is not supported" and no install    *)
(* command, and it does not abort the run: the run never ends at it, and   *)
(* when no install fails the run goes through every tool and reports       *)
(* success.                                                                *)
(***************************************************************************)
SourceNotSupported(tool) ==
  Rec("WARNING", Str(tool.name) \o ": Source is not supported")

C9_UnsupportedSourceSkipped ==
  \A i \in DOMAIN tools :
    ~Supported(tools[i]) =>
      /\ IssuedFor(i) = 0
      /\ Count(log, SourceNotSupported(tools[i]))
           = (IF Passed(i) THEN 1 ELSE 0)
      /\ ~(Done /\ idx = i)
      /\ (Done /\ outcome \in {"none", "ok"}) =>
           (result = "True" /\ idx = Len(tools) + 1 /\ exit_code = 0)

\* a successful run whose first tool has an unsupported source and whose
\* second tool was installed
C9_Witness ==
  /\ Done /\ result = "True"
  /\ Len(tools) = 2
  /\ ~Supported(tools[1])
  /\ Count(Output, SourceNotSupported(tools[1])) = 1
  /\ IssuedFor(2) = 1

(***************************************************************************)
(* C10: in dry-run mode no external process is ever executed: every        *)
(* install command and the list-packages command are only logged at        *)
(* warning level, the python snapshot is empty, and every tool of the      *)
(* manifest is processed to the end with the run reporting success.        *)
(* As stated it fails for dry runs on a rejected manifest, an unset        *)
(* install method or a hidden warning level; C10_DryRunExecutesNothing is  *)
(* the statement that holds.                                               *)
(***************************************************************************)
RunningInstall(level, command) ==
  Rec(level, "Running install command: '" \o Join(command) \o "'")

ListingPackages(level, command) ==
  Rec(level, "List python packages using command: '" \o Join(command) \o "'")

ManifestValid ==
  /\ env.toml_file.exists /\ env.toml_file.section = "dict"
  /\ \A i \in DOMAIN env.toml_file.entries :
       ~AnyCheckFails(env.toml_file.entries[i])

RegistryReadable == ~list_installed_rust_tools(env.crates_toml).raised

MethodsRecognised ==
  /\ args.rust_install_method \in RUST_INSTALL_METHODS
  /\ args.python_install_method \in PYTHON_INSTALL_METHODS

WellFormedName(s) ==
  /\ Len(s) >= 1
  /\ \A k \in DOMAIN s : s[k] \in AlnumChars \cup {".", "_", "-"}
  /\ s[1] \in AlnumChars
  /\ s[Len(s)] \in AlnumChars

NameError(name) ==
  Rec("ERROR", "Tool name doesn't match crates.io or Pypi tool name: '"
                 \o Str(name) \o "'")

\* read_tools has returned (a list or None)
ReadReturned ==
  \/ pc \in {"prepare", "loop"}
  \/ Done /\ (LoopEntered \/ result = "False")

\* the entries of the section that read_tools gets to
EntriesRead ==
  {i \in DOMAIN env.toml_file.entries :
     \A j \in 1..(i - 1) : ~AnyCheckFails(env.toml_file.entries[j])}

C11_NameAcceptedIffWellFormed ==
  (ReadReturned /\ env.toml_file.exists /\ env.toml_file.section = "dict") =>
    \A i \in EntriesRead :
      /\ WellFormedName(env.toml_file.entries[i].name)
           <=> validate_tool_name(StrVal(env.toml_file.entries[i].name)).ok
      /\ WellFormedName(env.toml_file.entries[i].name)
           <=> Count(log, NameError(env.toml_file.entries[i].name)) = 0

(***************************************************************************)
(* C12: the checks of an entry run in the order name, value shape (a value *)
(* that is not a table, a bare version string included, is rejected with   *)
(* "Tool details must be dict"), version, source, locked; the read stops   *)
(* at the first failing check of the first failing entry: a failed read    *)
(* logs exactly one error message, that of this check, and nothing of a    *)
(* later check or entry.                                                   *)
(***************************************************************************)
\* "{tool_name}: {Field} {problem}"
FieldError(tool_name, Field, problem) ==
  Rec("ERROR", Str(tool_name) \o ": " \o Field \o " " \o problem)

\* the message of the check of a text field v of an entry if it fails, and
\* that of the checks that follow (next) if it passes
TextError(e, v, Field, regexOk, regex_str, next) ==
  IF v.ty = "none" THEN FieldError(e.name, Field, "is mandatory")
  ELSE IF v.ty # "str" THEN FieldError(e.name, Field, "must be string")
  ELSE IF ~regexOk
  THEN FieldError(e.name, Field,
         "doesn't match " \o regex_str \o ": '" \o Str(v.s) \o "'")
  ELSE next

\* the message of the first failing check of a failing entry, the checks
\* taken in the order name, value shape, version, source, locked
FirstError(e) ==
  IF ~validate_tool_name(StrVal(e.name)).ok THEN NameError(e.name)
  ELSE IF e.value.ty # "dict"
  THEN FieldError(e.name, "Tool details", "must be dict")
  ELSE TextError(e, e.version, "Version",
         e.version.ty = "str" /\ VERSION_PATTERN(e.version.s),
         "semver or PEP440 scheme",
         TextError(e, e.source, "Source",
           e.source.ty = "str" /\ SOURCE_PATTERN(e.source.s),
           "source name pattern",
           FieldError(e.name, "Locked", "must be boolean")))

UnknownMethod(install_method) ==
  Rec("ERROR", "Unknown installation method: " \o install_method)

\* the error records logged so far, but for those about the install methods
\* (logged when the snapshots are taken and the commands prepared)
Errors ==
  SelectSeq(log, LAMBDA r :
    /\ r.level = "ERROR"
    /\ r # UnknownMethod(args.rust_install_method)
    /\ r # UnknownMethod(args.python_install_method))

FailingEntries ==
  {i \in DOMAIN env.toml_file.entries :
     AnyCheckFails(env.toml_file.entries[i])}

FirstFailing == CHOOSE i \in FailingEntries : \A j \in FailingEntries : i <= j

OwnSnapshot(tool) ==
  IF tool.source = crate THEN installed_rust_tools
  ELSE installed_python_packages

\* what check_tool_installed answers and logs for a tool on the snapshot of
\* its own ecosystem
OwnDecision(tool) ==
  check_tool_installed(tool.name, tool.version, args.force_install,
                       OwnSnapshot(tool))

C13_OwnEcosystemSnapshot ==
  \A i \in DOMAIN tools :
    (Supported(tools[i]) /\ Passed(i)) =>
      /\ IssuedFor(i) = (IF OwnDecision(tools[i]).ret THEN 0 ELSE 1)
      /\ \A r \in Elements(OwnDecision(tools[i]).log) : Count(log, r) >= 1

(***************************************************************************)
(* C14: in a run without execution failure every tool of a supported       *)
(* source that is absent from the installed snapshot gets exactly one      *)
(* install command, the install commands of the run are issued in          *)
(* manifest order, and no tool gets more than one.  The snapshot of a tool *)
(* is that of its ecosystem; a pypi tool that is not installed is skipped  *)
(* by the code when a crate of its name is installed at another version    *)
(* and force-install is set.                                               *)
(***************************************************************************)
AbsentFromOwnSnapshot(tool) == tool.name \notin DOMAIN OwnSnapshot(tool)

C14_AbsentInstalledOnceInOrder ==
  /\ \A i \in DOMAIN tools :
       /\ (Supported(tools[i]) /\ AbsentFromOwnSnapshot(tools[i]) /\ Passed(i))
            => IssuedFor(i) = 1
       /\ IssuedFor(i) <= 1
  /\ \A k \in DOMAIN issued :
       k > 1 => issued[k].tool > issued[k - 1].tool

(***************************************************************************)
(* C15: in any run that passes manifest validation with force-install set  *)
(* and a recognised python install method, the warning "Force install flag *)
(* is not yet supported for Python packages" is logged during command      *)
(* preparation, before the first tool is processed and so before any       *)
(* install command is issued, whether or not the manifest has a pypi tool; *)
(* once the warned flag is set it is never reset during the run.           *)
(***************************************************************************)
ForcedPython ==
  /\ args.force_install
  /\ args.python_install_method \in PYTHON_INSTALL_METHODS

C15_WarningAtPreparation ==
  /\ [](/\ (LoopEntered /\ ForcedPython) =>
             /\ Count(log, ForceWarning) = 1
             /\ warning_python_force_install_met
        /\ (pc = "prepare" /\ ForcedPython) =>
             /\ Count(log, ForceWarning) = 0
             /\ issued = <<>>)
  /\ [][/\ Count(log', ForceWarning) # Count(log, ForceWarning) =>
             /\ pc = "prepare" /\ pc' = "loop"
             /\ idx = 0 /\ idx' = 1
             /\ issued = <<>> /\ issued' = <<>>
        /\ (issued' # issued /\ ForcedPython) =>
             Count(log, ForceWarning) = 1
        /\ warning_python_force_install_met =>
             warning_python_force_install_met']_vars

\* a forced run over a section without pypi tools that issued an install
\* command after the warning
C15_Witness ==
  /\ Done /\ ForcedPython
  /\ tools # <<>>
  /\ \A i \in DOMAIN tools : tools[i].source # pypi
  /\ issued # <<>>
  /\ Count(log, ForceWarning) = 1
  /\ warning_python_force_install_met

(***************************************************************************)
(* C16: when the install method of an ecosystem is not one of its          *)
(* recognised values (the option omitted, which leaves it unset), command  *)
(* preparation logs an error and yields no base command, the run still     *)
(* goes on to process the manifest, no install command is ever issued for  *)
(* a tool of that ecosystem, the run never reports success if such a tool  *)
(* reaches the install step, and the tools of the other ecosystem that     *)
(* precede it are still installed.                                         *)
(***************************************************************************)
RustUnset == args.rust_install_method \notin RUST_INSTALL_METHODS

PythonUnset == args.python_install_method \notin PYTHON_INSTALL_METHODS

MethodUnset(tool) ==
  \/ tool.source = crate /\ RustUnset
  \/ tool.source = pypi /\ PythonUnset

\* the loop stands at, or ended at, a tool whose decision sends it to the
\* install step
ReachesInstall(i) == Supported(tools[i]) /\ ~Decide(tools[i]).ret

C16_UnsetMethodNeverInstalls ==
  /\ [](/\ LoopEntered =>
             /\ RustUnset =>
                  /\ prepared_command_rust = NoCommand
                  /\ Count(log, UnknownMethod(args.rust_install_method)) >= 1
             /\ PythonUnset =>
                  /\ prepared_command_python = NoCommand
                  /\ Count(log, UnknownMethod(args.python_install_method)) >= 2
        /\ \A k \in DOMAIN issued : ~MethodUnset(tools[issued[k].tool])
        /\ \A i \in DOMAIN tools :
             (MethodUnset(tools[i]) /\ ReachesInstall(i)) =>
               /\ ~Passed(i)
               /\ Done => (result # "True" /\ exit_code = 1)
               /\ (Done /\ idx = i) =>
                    \A j \in 1..(i - 1) :
                      (~MethodUnset(tools[j]) /\ ReachesInstall(j)) =>
                        IssuedFor(j) = 1)
  /\ [][pc = "prepare" => (pc' = "loop" /\ result' = "running")]_vars

\* a run with the python method unset that installed a crate tool and then
\* ended at a pypi tool
C16_Witness ==
  /\ Done /\ PythonUnset /\ ~RustUnset
  /\ Len(tools) >= 2
  /\ tools[1].source = crate /\ IssuedFor(1) = 1
  /\ tools[2].source = pypi /\ idx = 2
  /\ Len(issued) = 1
  /\ result = "raised" /\ outcome = "TypeError"
  /\ Count(log, UnknownMethod(None)) = 2

====
